---- MODULE Spec2Model ----
(***************************************************************************)
(* Model of the forecasting core of SimuLad (src/simulation.py):           *)
(*   convert_temperature_to_fahrenheit, train_var_model, simulate_scenario *)
(*                                                                         *)
(* Representation                                                          *)
(*   - a column name is a sequence of one-character strings, so that       *)
(*     str.lower, the substring test and str.replace are computed;         *)
(*   - a number is an integer count of hundredths (1.00 is 100), so that   *)
(*     C * 1.8 + 32 is exact on the whole-degree inputs of the model;      *)
(*   - a DataFrame with a "DateTime" column is a record                    *)
(*       [columns |-> names of the value columns, in order,                *)
(*        DateTime |-> the timestamps (hours), rows |-> the value rows];   *)
(*   - a missing cell (NaN) is the reserved value NaN, below every number *)
(*     the model reaches; arithmetic on it yields NaN.                     *)
(***************************************************************************)
EXTENDS Integers, Sequences, FiniteSets, TLC

\* ------------------------------------------------------------- bounds
\* longest observation table drawn as an input
MaxRows == 3
\* largest forecast horizon drawn as an input
MaxSteps == 2
\* largest requested maximum lag drawn as an input (the default is 3)
MaxLagsReq == 3
\* most entries of an adjustment set drawn as an input
MaxAdj == 2
\* most successive applications of the converter to one table
MaxConverts == 2
\* most successive calls of simulate_scenario with one fitted model
MaxCalls == 2

\* the missing value of a cell
NaN == 0 - 99999999

\* ------------------------------------------------------------ strings
LowerMap ==
    [A |-> "a", B |-> "b", C |-> "c", D |-> "d", E |-> "e", F |-> "f", G |-> "g",
     H |-> "h", I |-> "i", J |-> "j", K |-> "k", L |-> "l", M |-> "m", N |-> "n",
     O |-> "o", P |-> "p", Q |-> "q", R |-> "r", S |-> "s", T |-> "t", U |-> "u",
     V |-> "v", W |-> "w", X |-> "x", Y |-> "y", Z |-> "z"]

\* str.lower on one character
LowerChar(c) == IF c \in DOMAIN LowerMap THEN LowerMap[c] ELSE c

\* str.lower
Lower(s) == [i \in 1..Len(s) |-> LowerChar(s[i])]

\* Python's  sub in s
Contains(s, sub) ==
    \E i \in 1..(Len(s) - Len(sub) + 1) : SubSeq(s, i, i + Len(sub) - 1) = sub

\* str.replace(old, new): every non-overlapping occurrence, left to right
RECURSIVE Replace(_, _, _)
Replace(s, old, new) ==
    IF Len(s) < Len(old) THEN s
    ELSE IF SubSeq(s, 1, Len(old)) = old
         THEN new \o Replace(SubSeq(s, Len(old) + 1, Len(s)), old, new)
         ELSE <<s[1]>> \o Replace(Tail(s), old, new)

S_temp == <<"t","e","m","p">>
S_degc == <<"d","e","g","c">>
S_degC == <<"d","e","g","C">>
S_DEGC == <<"D","E","G","C">>
S_degF == <<"d","e","g","F">>

\* line 14: the column is a Celsius temperature column
IsCelsiusTemp(col) == Contains(Lower(col), S_temp) /\ Contains(Lower(col), S_degc)

\* line 16: the new column name
RenameCol(col) == Replace(Replace(col, S_degC, S_degF), S_DEGC, S_degF)

\* line 15: F = C * 1.8 + 32, on hundredths
ToFahrenheit(x) == IF x = NaN THEN NaN ELSE (x * 18) \div 10 + 3200

\* convert_temperature_to_fahrenheit: a new table; every matching column is
\* converted and renamed, the others are left alone
convert_temperature_to_fahrenheit(data) ==
    LET matched == { j \in 1..Len(data.columns) : IsCelsiusTemp(data.columns[j]) }
    IN [columns  |-> [j \in 1..Len(data.columns) |->
                        IF j \in matched
                        THEN RenameCol(data.columns[j]) ELSE data.columns[j]],
        DateTime |-> data.DateTime,
        rows     |-> [i \in 1..Len(data.rows) |->
                        [j \in 1..Len(data.columns) |->
                           IF j \in matched
                           THEN ToFahrenheit(data.rows[i][j]) ELSE data.rows[i][j]]]]

\* ------------------------------------------------------- frame helpers
Max(a, b) == IF a >= b THEN a ELSE b

\* elementwise float arithmetic, NaN propagating
AddNum(a, b) == IF a = NaN \/ b = NaN THEN NaN ELSE a + b
SubNum(a, b) == IF a = NaN \/ b = NaN THEN NaN ELSE a - b

\* index labels: a timestamp and a RangeIndex position never compare equal
TsLabel(h) == <<"ts", h>>
PosLabel(i) == <<"pos", i>>

\* data.set_index("DateTime"): the value columns, labelled by the timestamps
SetIndex(data) ==
    [columns |-> data.columns,
     index   |-> [i \in 1..Len(data.DateTime) |-> TsLabel(data.DateTime[i])],
     rows    |-> data.rows]

\* DataFrame.diff(): the first row is undefined, every other row is the
\* difference with its predecessor
FrameDiff(df) ==
    [columns |-> df.columns,
     index   |-> df.index,
     rows    |-> [i \in 1..Len(df.rows) |->
                    [j \in 1..Len(df.columns) |->
                       IF i = 1 THEN NaN
                       ELSE SubNum(df.rows[i][j], df.rows[i - 1][j])]]]

RowHasNaN(row) == \E j \in 1..Len(row) : row[j] = NaN

\* positions of the rows DataFrame.dropna() keeps, in order
RECURSIVE KeptFrom(_, _)
KeptFrom(rows, i) ==
    IF i > Len(rows) THEN <<>>
    ELSE (IF RowHasNaN(rows[i]) THEN <<>> ELSE <<i>>) \o KeptFrom(rows, i + 1)

\* DataFrame.dropna(): drops every row holding a missing value
DropNa(df) ==
    LET keep == KeptFrom(df.rows, 1)
    IN [columns |-> df.columns,
        index   |-> [i \in 1..Len(keep) |-> df.index[keep[i]]],
        rows    |-> [i \in 1..Len(keep) |-> df.rows[keep[i]]]]

\* df.iloc[-k:]: Python slices from position -k; -0 is 0, so k = 0 takes the
\* whole frame, and k > len(df) takes the whole frame too
ILocTail(df, k) ==
    LET n == Len(df.rows)
        first == IF k = 0 \/ k >= n THEN 1 ELSE n - k + 1
    IN [columns |-> df.columns,
        index   |-> SubSeq(df.index, first, n),
        rows    |-> SubSeq(df.rows, first, n)]

\* position of a label in a sequence of labels, 0 when absent
Loc(labels, x) ==
    IF \E j \in 1..Len(labels) : labels[j] = x
    THEN CHOOSE j \in 1..Len(labels) : labels[j] = x
    ELSE 0

\* ---------------------------------------------- the statsmodels library
\* What VAR(frame).select_order(maxlags) followed by fit(lag) can do on a
\* frame of nrows rows (lines 40-43 and 50-53).  The criterion's choice and
\* the conditioning of the covariance depend on the values, so the outcome
\* is an input of the model:
\*   - a selected order in 0..maxlags (select_order compares the orders from
\*     0 up, so .aic is an integer and never None), possible only when the
\*     common estimation sample, nrows - maxlags rows, is not empty;
\*   - numpy.linalg.LinAlgError (a covariance that is not positive definite);
\*   - any other exception of the library.
LibOk(lag) == [kind |-> "ok", lag |-> lag]
LibLinAlgError == [kind |-> "LinAlgError", lag |-> 0]
LibOtherError == [kind |-> "LibraryError", lag |-> 0]
LibOutcomes(nrows, maxlags) ==
    {LibLinAlgError, LibOtherError}
      \cup (IF nrows - maxlags >= 1 THEN {LibOk(l) : l \in 0..maxlags} ELSE {})

\* mutant of ReduceMaxlags: the length is compared with < instead of <=
ReduceMaxlagsStrict(n, maxlags) == IF n < maxlags THEN Max(1, n - 1) ELSE maxlags

\* lines 36-37 and 48-49: the maximum lag handed to select_order
ReduceMaxlags(n, maxlags) == IF n <= maxlags THEN Max(1, n - 1) ELSE maxlags

NoSnapshot == [present |-> FALSE, index |-> <<>>, values |-> <<>>]

\* df.iloc[-1] as a Series: the values of the last row, labelled by the columns
LastRow(df) ==
    [present |-> TRUE, index |-> df.columns, values |-> df.rows[Len(df.rows)]]

\* the fitted model handle: its lag order, its variables, the series it was
\* estimated on and the number of rows of that series
FittedModel(lag, frame, differenced) ==
    [k_ar |-> lag, names |-> frame.columns, differenced |-> differenced,
     nobs |-> Len(frame.rows)]
NoModel == [k_ar |-> 0, names |-> <<>>, differenced |-> FALSE, nobs |-> 0]

\* a (results, last_level) return of train_var_model; attempts counts the
\* calls of the library's selection and fit that were started
FitReturn(model, last_level, attempts) ==
    [status |-> "ok", model |-> model, last_level |-> last_level,
     attempts |-> attempts]
\* an exception leaving train_var_model
FitRaise(kind, attempts) ==
    [status |-> kind, model |-> NoModel, last_level |-> NoSnapshot,
     attempts |-> attempts]

\* lines 32-37 of train_var_model
FitFrame(data) == SetIndex(convert_temperature_to_fahrenheit(data))
FitMaxlags(data, maxlags) == ReduceMaxlags(Len(FitFrame(data).rows), maxlags)
\* lines 47-49
FitDiffFrame(data) == DropNa(FrameDiff(FitFrame(data)))
FitDiffMaxlags(data, maxlags) ==
    ReduceMaxlags(Len(FitDiffFrame(data).rows), FitMaxlags(data, maxlags))

\* lines 41 and 51: the maxlags of each select_order call made, in order; the
\* second call is made when the first raised LinAlgError
SelectOrderCalls(data, maxlags, o1) ==
    IF o1.kind = "LinAlgError"
    THEN <<FitMaxlags(data, maxlags), FitDiffMaxlags(data, maxlags)>>
    ELSE <<FitMaxlags(data, maxlags)>>

\* mutant of FitFallback: the snapshot is taken from the differenced series
FitFallbackSnapshotOfDiff(data, maxlags, o2) ==
    IF o2.kind = "ok"
    THEN FitReturn(FittedModel(o2.lag, FitDiffFrame(data), TRUE),
                   LastRow(FitDiffFrame(data)), 2)
    ELSE FitRaise(o2.kind, 2)

\* lines 46-55: the handler of LinAlgError; an exception raised in it is not
\* caught by the try statement it belongs to
FitFallback(data, maxlags, o2) ==
    IF o2.kind = "ok"
    THEN FitReturn(FittedModel(o2.lag, FitDiffFrame(data), TRUE),
                   LastRow(FitFrame(data)), 2)
    ELSE FitRaise(o2.kind, 2)

\* train_var_model(data, maxlags); o1 and o2 are what the library does in the
\* level attempt and in the attempt on the differenced series
train_var_model(data, maxlags, o1, o2) ==
    IF o1.kind = "ok"
    THEN FitReturn(FittedModel(o1.lag, FitFrame(data), FALSE), NoSnapshot, 1)
    ELSE IF o1.kind = "LinAlgError"
         THEN FitFallback(data, maxlags, o2)
         ELSE FitRaise(o1.kind, 1)

\* VARResults.forecast(y, steps) (lines 78 and 96).  The fitted coefficients
\* are opaque to the repository; the model fixes one coefficient per
\* (lag, equation, variable) and an intercept per equation, all non-zero, so
\* that a forecast depends on every cell of the last k_ar rows of y.
Coef(i, j, c) == i + j + c
Intercept(j) == 100 * j

\* the value the recursion reads i steps before forecast step h
PriorY(y, forcs, h, i) == IF h > i THEN forcs[h - i] ELSE y[Len(y) + h - i]

RECURSIVE SumLagCols(_, _, _, _, _, _, _)
SumLagCols(y, forcs, p, k, h, j, n) ==
    \* n enumerates the (lag, variable) pairs, 1 .. p * k
    IF n > p * k THEN 0
    ELSE LET i == ((n - 1) \div k) + 1
             c == ((n - 1) % k) + 1
         IN Coef(i, j, c) * PriorY(y, forcs, h, i)[c]
              + SumLagCols(y, forcs, p, k, h, j, n + 1)

RECURSIVE ForecastRows(_, _, _, _, _)
ForecastRows(y, p, k, steps, forcs) ==
    IF Len(forcs) >= steps THEN forcs
    ELSE LET h == Len(forcs) + 1
             row == [j \in 1..k |->
                       Intercept(j) + SumLagCols(y, forcs, p, k, h, j, 1)]
         IN ForecastRows(y, p, k, steps, Append(forcs, row))

\* the library reads coefs[0], which does not exist for a model of order 0,
\* and refuses a y of fewer rows than the order; both are its own exceptions
LibForecast(model, y, steps) ==
    IF model.k_ar = 0 \/ Len(y) < model.k_ar
    THEN [kind |-> "LibraryError", rows |-> <<>>]
    ELSE [kind |-> "ok",
          rows |-> ForecastRows(y, model.k_ar, Len(model.names), steps, <<>>)]

\* ------------------------------------------------------ simulate_scenario
\* pd.date_range(start, periods, freq='H'): periods hourly timestamps from start
DateRange(start, periods) == [i \in 1..periods |-> TsLabel(start + (i - 1))]

\* mutant of ForecastIndex: steps timestamps starting at the last observation
ForecastIndexFromLast(data, steps) ==
    DateRange(data.DateTime[Len(data.DateTime)], steps)

\* lines 79 and 100: date_range(start=last timestamp, periods=steps+1)[1:]
ForecastIndex(data, steps) ==
    Tail(DateRange(data.DateTime[Len(data.DateTime)], steps + 1))

\* pd.DataFrame(ndarray, index=..., columns=...): the array's rows take the
\* given labels; its shape must agree with them
FrameOfArray(rows, index, columns) ==
    IF Len(rows) # Len(index) \/ \E i \in 1..Len(rows) : Len(rows[i]) # Len(columns)
    THEN [status |-> "ValueError", columns |-> <<>>, index |-> <<>>, rows |-> <<>>]
    ELSE [status |-> "ok", columns |-> columns, index |-> index, rows |-> rows]

\* pd.DataFrame(frame, index=..., columns=...): the frame is REINDEXED to the
\* given labels; a label the frame does not have yields missing cells
FrameOfFrame(df, index, columns) ==
    [status |-> "ok", columns |-> columns, index |-> index,
     rows |-> [i \in 1..Len(index) |->
                 [j \in 1..Len(columns) |->
                    IF Loc(df.index, index[i]) = 0 \/ Loc(df.columns, columns[j]) = 0
                    THEN NaN
                    ELSE df.rows[Loc(df.index, index[i])][Loc(df.columns, columns[j])]]]]

\* DataFrame.cumsum() over the rows
CumSum(rows) ==
    [i \in 1..Len(rows) |->
       [j \in 1..Len(rows[i]) |->
          LET RECURSIVE upto(_)
              upto(n) == IF n = 0 THEN 0 ELSE AddNum(upto(n - 1), rows[n][j])
          IN upto(i)]]

\* a result of simulate_scenario: called tells whether the model's forecasting
\* routine was called, window is the array handed to it and forecast what it
\* returned
SimReturn(window, forecast, frame) ==
    [status |-> "ok", called |-> TRUE, window |-> window, forecast |-> forecast,
     columns |-> frame.columns, index |-> frame.index, rows |-> frame.rows]
SimRaise(kind, called, window) ==
    [status |-> kind, called |-> called, window |-> window, forecast |-> <<>>,
     columns |-> <<>>, index |-> <<>>, rows |-> <<>>]

\* mutant of KnownKey: the membership test is dropped
KnownKeyAlways(labels, var) == TRUE

\* lines 76 and 90: the adjustment names a variable
KnownKey(labels, var) == Loc(labels, var) # 0

\* lines 75-77: each known key is added to the last row of the window
RECURSIVE AdjustLevel(_, _, _)
AdjustLevel(win, adjustments, i) ==
    IF i > Len(adjustments) THEN [status |-> "ok", rows |-> win.rows]
    ELSE LET var == adjustments[i][1]
             change == adjustments[i][2]
             n == Len(win.rows)
             c == Loc(win.columns, var)
         IN IF ~KnownKey(win.columns, var) THEN AdjustLevel(win, adjustments, i + 1)
            ELSE IF c = 0 THEN [status |-> "KeyError", rows |-> win.rows]
            ELSE IF n = 0 THEN [status |-> "IndexError", rows |-> win.rows]
            ELSE AdjustLevel(
                   [win EXCEPT !.rows[n][c] = AddNum(win.rows[n][c], change)],
                   adjustments, i + 1)

\* lines 88-91: each known key is added to a copy of the snapshot
RECURSIVE AdjustSnapshot(_, _, _)
AdjustSnapshot(new_last, adjustments, i) ==
    IF i > Len(adjustments) THEN [status |-> "ok", series |-> new_last]
    ELSE LET var == adjustments[i][1]
             change == adjustments[i][2]
             c == Loc(new_last.index, var)
         IN IF ~KnownKey(new_last.index, var)
            THEN AdjustSnapshot(new_last, adjustments, i + 1)
            ELSE IF c = 0 THEN [status |-> "KeyError", series |-> new_last]
            ELSE AdjustSnapshot(
                   [new_last EXCEPT !.values[c] = AddNum(new_last.values[c], change)],
                   adjustments, i + 1)

\* Series - Series and Series + Series align on the labels
SeriesSub(a, b) ==
    [present |-> TRUE, index |-> a.index,
     values |-> [j \in 1..Len(a.index) |->
                   IF Loc(b.index, a.index[j]) = 0 THEN NaN
                   ELSE SubNum(a.values[j], b.values[Loc(b.index, a.index[j])])]]
SeriesAdd(a, b) ==
    [present |-> TRUE, index |-> a.index,
     values |-> [j \in 1..Len(a.index) |->
                   IF Loc(b.index, a.index[j]) = 0 THEN NaN
                   ELSE AddNum(a.values[j], b.values[Loc(b.index, a.index[j])])]]

\* lines 71-81: the level branch
SimulateLevel(data, var_results, adjustments, steps) ==
    LET data_indexed == SetIndex(convert_temperature_to_fahrenheit(data))
        last_obs == ILocTail(data_indexed, var_results.k_ar)
        modified_obs == AdjustLevel(last_obs, adjustments, 1)
        forecast == LibForecast(var_results, modified_obs.rows, steps)
        forecast_df == FrameOfArray(forecast.rows, ForecastIndex(data, steps),
                                    last_obs.columns)
    IN IF modified_obs.status # "ok" THEN SimRaise(modified_obs.status, FALSE, <<>>)
       ELSE IF forecast.kind # "ok" THEN SimRaise(forecast.kind, TRUE, modified_obs.rows)
       ELSE IF Len(data.DateTime) = 0 THEN SimRaise("IndexError", TRUE, modified_obs.rows)
       ELSE IF forecast_df.status # "ok"
            THEN SimRaise(forecast_df.status, TRUE, modified_obs.rows)
       ELSE SimReturn(modified_obs.rows, forecast.rows, forecast_df)

\* lines 84-95: the window of differences handed to the model
DiffWindow(data, var_results, adjustments, last_level) ==
    LET data_indexed == SetIndex(convert_temperature_to_fahrenheit(data))
        data_diff == DropNa(FrameDiff(data_indexed))
        last_obs_diff == ILocTail(data_diff, var_results.k_ar)
        new_last == AdjustSnapshot(last_level, adjustments, 1)
        original_last == LastRow(data_indexed)
        diff_adjustment == SeriesSub(new_last.series, original_last)
        n == Len(last_obs_diff.rows)
        last_diff == [present |-> TRUE, index |-> last_obs_diff.columns,
                      values |-> last_obs_diff.rows[n]]
    IN IF new_last.status # "ok" THEN [status |-> new_last.status, rows |-> <<>>]
       ELSE IF Len(data_indexed.rows) = 0 THEN [status |-> "IndexError", rows |-> <<>>]
       ELSE IF n = 0 THEN [status |-> "IndexError", rows |-> <<>>]
       ELSE [status |-> "ok",
             rows |-> [last_obs_diff.rows EXCEPT
                         ![n] = SeriesAdd(last_diff, diff_adjustment).values]]

\* lines 97-99: the forecast differences as a frame, summed and shifted by the
\* snapshot's values (by position)
ForecastLevel(forecast_diff, columns, last_level) ==
    LET forecast_diff_df ==
            FrameOfArray(forecast_diff,
                         [i \in 1..Len(forecast_diff) |-> PosLabel(i - 1)], columns)
        summed == CumSum(forecast_diff_df.rows)
    IN [status  |-> forecast_diff_df.status,
        columns |-> forecast_diff_df.columns,
        index   |-> forecast_diff_df.index,
        rows    |-> [i \in 1..Len(summed) |->
                       [j \in 1..Len(summed[i]) |->
                          AddNum(summed[i][j], last_level.values[j])]]]

\* line 101: the frame that is returned
ForecastFrame(forecast_level, forecast_index, columns) ==
    FrameOfFrame(forecast_level, forecast_index, columns)

\* lines 83-102: the differenced branch
SimulateDiff(data, var_results, adjustments, steps, last_level) ==
    LET data_indexed == SetIndex(convert_temperature_to_fahrenheit(data))
        modified_obs_diff == DiffWindow(data, var_results, adjustments, last_level)
        forecast_diff == LibForecast(var_results, modified_obs_diff.rows, steps)
        forecast_level ==
            ForecastLevel(forecast_diff.rows, data_indexed.columns, last_level)
        forecast_df ==
            ForecastFrame(forecast_level, ForecastIndex(data, steps),
                          data_indexed.columns)
    IN IF modified_obs_diff.status # "ok"
       THEN SimRaise(modified_obs_diff.status, FALSE, <<>>)
       ELSE IF forecast_diff.kind # "ok"
            THEN SimRaise(forecast_diff.kind, TRUE, modified_obs_diff.rows)
       ELSE IF forecast_level.status # "ok"
            THEN SimRaise(forecast_level.status, TRUE, modified_obs_diff.rows)
       ELSE SimReturn(modified_obs_diff.rows, forecast_diff.rows, forecast_df)

\* simulate_scenario(data, var_results, adjustments, steps, last_level)
simulate_scenario(data, var_results, adjustments, steps, last_level) ==
    IF ~last_level.present
    THEN SimulateLevel(data, var_results, adjustments, steps)
    ELSE SimulateDiff(data, var_results, adjustments, steps, last_level)

\* ------------------------------------------ single-series forecasters
\* what forecast_arima and forecast_prophet return or raise; fitted tells
\* whether the library was asked to fit a model
ForecastReturn(column, index, values) ==
    [status |-> "ok", fitted |-> TRUE, columns |-> <<column>>, index |-> index,
     rows |-> [i \in 1..Len(values) |-> <<values[i]>>]]
ForecastRaise(kind, fitted) ==
    [status |-> kind, fitted |-> fitted, columns |-> <<>>, index |-> <<>>,
     rows |-> <<>>]

\* df.iloc[:, j] with j counted from 0: the values and the name of column j,
\* IndexError when the frame has no such column
ILocColumn(df, j) ==
    IF j + 1 > Len(df.columns)
    THEN [status |-> "IndexError", name |-> <<>>, values |-> <<>>]
    ELSE [status |-> "ok", name |-> df.columns[j + 1],
          values |-> [i \in 1..Len(df.rows) |-> df.rows[i][j + 1]]]

\* Series.dropna().shape[0]
RECURSIVE CountNotNa(_)
CountNotNa(values) ==
    IF values = <<>> THEN 0
    ELSE (IF Head(values) = NaN THEN 0 ELSE 1) + CountNotNa(Tail(values))

\* the predictions of a fitted univariate model are opaque to the repository;
\* the model fixes them as the number of usable observations plus the step
LibSeriesPredict(values, periods) ==
    [i \in 1..periods |-> 100 * CountNotNa(values) + i]

\* line 16: model_fit.forecast(steps) predicts from position nobs to position
\* nobs + steps - 1; with steps = 0 the end precedes the start and the
\* library raises
LibSeriesForecast(values, steps) ==
    IF steps < 1
    THEN [status |-> "LibraryError", values |-> <<>>]
    ELSE [status |-> "ok", values |-> LibSeriesPredict(values, steps)]

\* DataFrame.tail(n): the last n entries, none when n = 0
FrameTail(seq, n) ==
    IF n >= Len(seq) THEN seq ELSE SubSeq(seq, Len(seq) - n + 1, Len(seq))

\* forecast_arima(data, steps=steps); o is what ARIMA(...).fit() does
forecast_arima(data, steps, o) ==
    LET ts == ILocColumn(SetIndex(data), 1)
        forecast == LibSeriesForecast(ts.values, steps)
    IN IF ts.status # "ok" THEN ForecastRaise(ts.status, FALSE)
       ELSE IF Len(ts.values) < 2 THEN ForecastRaise("ValueError", FALSE)
       ELSE IF o.kind # "ok" THEN ForecastRaise(o.kind, TRUE)
       ELSE IF forecast.status # "ok" THEN ForecastRaise(forecast.status, TRUE)
       ELSE ForecastReturn(ts.name, ForecastIndex(data, steps), forecast.values)

\* line 32: make_future_dataframe(periods, freq='H'), the timestamps of the
\* history followed by periods hourly timestamps after its last one
FutureFrame(history, periods) ==
    history \o Tail(DateRange(history[Len(history)][2], periods + 1))

\* forecast_prophet(data, steps=steps); o is what Prophet().fit(ts) does
forecast_prophet(data, steps, o) ==
    LET y == ILocColumn(SetIndex(data), 1)
        ds == SetIndex(data).index
    IN IF y.status # "ok" THEN ForecastRaise(y.status, FALSE)
       ELSE IF CountNotNa(y.values) < 2 THEN ForecastRaise("ValueError", FALSE)
       ELSE IF o.kind # "ok" THEN ForecastRaise(o.kind, TRUE)
       ELSE ForecastReturn(<<"y", "h", "a", "t">>,
                           FrameTail(FutureFrame(ds, steps), steps),
                           FrameTail(LibSeriesPredict(y.values, Len(ds) + steps),
                                     steps))

\* ------------------------------------------- effects on the arguments
\* An argument is an object the caller keeps; a statement that updates an
\* object in place changes the caller's object exactly when it acts on that
\* object and not on a copy of it.
ArgObject(value) == [id |-> "argument", value |-> value]

\* mutant of SeriesCopy: new_last = last_level, the same object
SeriesAliased(obj) == obj

\* line 88: last_level.copy(), a new object holding the same values
SeriesCopy(obj) == [id |-> "local", value |-> obj.value]

\* line 12: data.copy(), a new object holding the same table
FrameCopy(obj) == [id |-> "local", value |-> obj.value]

\* the caller's object after an in-place update, made through target, that
\* leaves target holding updated
AfterUpdate(arg, target, updated) ==
    IF target.id = arg.id THEN updated ELSE arg.value

\* lines 12-17 (called on line 68): the table passed to simulate_scenario
\* after the converter assigned and renamed columns in place
DataAfter(data) ==
    LET arg == ArgObject(data)
        local == FrameCopy(arg)
    IN AfterUpdate(arg, local, convert_temperature_to_fahrenheit(local.value))

\* lines 88-91: the snapshot passed to simulate_scenario after the loop added
\* the deltas in place; the level branch does not touch it
SnapshotAfter(last_level, adjustments) ==
    LET arg == ArgObject(last_level)
        new_last == SeriesCopy(arg)
    IN IF ~last_level.present THEN last_level
       ELSE AfterUpdate(arg, new_last,
                        AdjustSnapshot(new_last.value, adjustments, 1).series)

\* the argument objects after a call: the adjustment dict is only iterated
\* (lines 75, 89) and the model is only read (k_ar) and asked to forecast
ArgsAfter(data, var_results, adjustments, last_level) ==
    [data |-> DataAfter(data), var_results |-> var_results,
     adjustments |-> adjustments,
     last_level |-> SnapshotAfter(last_level, adjustments)]

\* ---------------------------------------------------------------- inputs
S_Temp == <<"T","e","m","p">>
S_TEMP == <<"T","E","M","P">>
S_Wind == <<"W","i","n","d">>
S_Rain == <<"R","a","i","n">>
Sep == <<"_">>

\* names of the temperature column: the documented marker, its upper-case and
\* lower-case spellings, a mixed one, and a column already in Fahrenheit
TempNames ==
    { S_Temp \o Sep \o S_degC, S_TEMP \o Sep \o S_DEGC, S_temp \o Sep \o S_degc,
      S_Temp \o Sep \o S_degF }

\* the value columns of an observation table: a temperature and a wind speed
ColumnSets == { <<t, S_Wind>> : t \in TempNames }

\* the observations drawn as rows (temperature, wind speed): 0.00 and 10.00
RowChoices == { <<0, 1000>>, <<1000, 0>> }

\* the observation tables: hourly timestamps, no missing cell
TablesOf(cols, n) ==
    { [columns |-> cols, DateTime |-> [i \in 1..n |-> 9 + i], rows |-> r] :
        r \in [1..n -> RowChoices] }
Tables == UNION { TablesOf(cols, n) : cols \in ColumnSets, n \in 0..MaxRows }

\* the series the single-series forecasters are given: the timestamps with
\* one value column or with two, cells 0.00, 10.00 or missing
SeriesColumnSets == { <<S_Wind>>, <<S_Temp \o Sep \o S_degC, S_Wind>> }
SeriesValues == {0, 1000, NaN}
SeriesOf(cols, n) ==
    { [columns |-> cols, DateTime |-> [i \in 1..n |-> 9 + i], rows |-> r] :
        r \in [1..n -> [1..Len(cols) -> SeriesValues]] }
SeriesTables == UNION { SeriesOf(cols, n) : cols \in SeriesColumnSets, n \in 0..MaxRows }
\* what fitting the univariate model does: it succeeds or the library raises
SeriesFitOutcomes == {LibOk(0), LibOtherError}

\* the tables simulate is called with after a fit on data: the same table, a
\* shorter history, or the history extended by one new observation
SimTables(data) ==
    LET n == Len(data.rows)
    IN { [data EXCEPT !.DateTime = SubSeq(data.DateTime, 1, m),
                      !.rows = SubSeq(data.rows, 1, m)] : m \in 0..n }
       \cup { [data EXCEPT !.DateTime = Append(data.DateTime, 10 + n),
                           !.rows = Append(data.rows, r)] :
                r \in RowChoices }

\* the keys a caller may adjust: the variables of the converted table, a name
\* that is no column at all, and the raw column names (dict keys are unique)
RECURSIVE Dedup(_)
Dedup(s) ==
    IF s = <<>> THEN <<>>
    ELSE LET rest == Dedup(SubSeq(s, 1, Len(s) - 1))
         IN IF Loc(rest, s[Len(s)]) # 0 THEN rest ELSE Append(rest, s[Len(s)])
AdjKeys(data) == Dedup(convert_temperature_to_fahrenheit(data).columns \o <<S_Rain>> \o data.columns)

\* the delta of a key: 2.00 degrees, 0.50 of wind speed, 3.00 otherwise
DeltaOf(key) ==
    IF Contains(Lower(key), S_temp) THEN 200 ELSE IF key = S_Wind THEN 50 ELSE 300

\* the entries of keys whose positions are in S, in order
RECURSIVE ItemsOf(_, _, _)
ItemsOf(keys, S, i) ==
    IF i > Len(keys) THEN <<>>
    ELSE (IF i \in S THEN << <<keys[i], DeltaOf(keys[i])>> >> ELSE <<>>)
           \o ItemsOf(keys, S, i + 1)

\* the adjustment sets: a dict, as the sequence of its (key, delta) items
AdjustmentSets(data) ==
    { ItemsOf(AdjKeys(data), S, 1) :
        S \in { T \in SUBSET (1..Len(AdjKeys(data))) : Cardinality(T) <= MaxAdj } }

\* ----------------------------------------------------------------- state
VARIABLES
    data,      \* the observation table given to train_var_model
    conv,      \* the results of successive calls of the converter on data
    fitcall,   \* the arguments of the call of train_var_model, library outcomes included
    fit,       \* what train_var_model returned or raised
    simcall,   \* the arguments of the last call of simulate_scenario
    sim,       \* what that call returned or raised
    after,     \* the argument objects of that call once it has ended
    calls,     \* the number of calls of simulate_scenario so far
    fccall,    \* the forecaster called last and its arguments
    fc         \* what that forecaster returned or raised

vars == <<data, conv, fitcall, fit, simcall, sim, after, calls, fccall, fc>>

NoFit == [status |-> "none", model |-> NoModel, last_level |-> NoSnapshot,
          attempts |-> 0]
NoFitCall == [maxlags |-> 0, o1 |-> LibOtherError, o2 |-> LibOtherError,
              passed |-> <<>>]
NoSim == SimRaise("none", FALSE, <<>>)
NoSimCall == [data |-> [columns |-> <<>>, DateTime |-> <<>>, rows |-> <<>>],
              adjustments |-> <<>>, steps |-> 0]
NoForecastCall == [forecaster |-> "none", steps |-> 0, o |-> LibOtherError]
NoForecast == ForecastRaise("none", FALSE)
NoArgs == [data |-> NoSimCall.data, var_results |-> NoModel,
           adjustments |-> <<>>, last_level |-> NoSnapshot]

Init ==
    /\ data \in Tables
    /\ conv = <<>>
    /\ fitcall = NoFitCall
    /\ fit = NoFit
    /\ simcall = NoSimCall
    /\ sim = NoSim
    /\ after = NoArgs
    /\ calls = 0
    /\ fccall = NoForecastCall
    /\ fc = NoForecast

\* convert_temperature_to_fahrenheit applied to the table, or to its own result
Convert ==
    /\ fit.status = "none"
    /\ Len(conv) < MaxConverts
    /\ conv' = Append(conv, convert_temperature_to_fahrenheit(IF conv = <<>> THEN data
                                               ELSE conv[Len(conv)]))
    /\ UNCHANGED <<data, fitcall, fit, simcall, sim, after, calls, fccall, fc>>

\* train_var_model(data, maxlags)
Train ==
    /\ fit.status = "none"
    /\ conv = <<>>
    /\ \E maxlags \in 1..MaxLagsReq :
         \E o1 \in LibOutcomes(Len(FitFrame(data).rows), FitMaxlags(data, maxlags)) :
           \E o2 \in (IF o1.kind = "LinAlgError"
                      THEN LibOutcomes(Len(FitDiffFrame(data).rows),
                                       FitDiffMaxlags(data, maxlags))
                      ELSE {LibOtherError}) :
             /\ fitcall' = [maxlags |-> maxlags, o1 |-> o1, o2 |-> o2,
                            passed |-> SelectOrderCalls(data, maxlags, o1)]
             /\ fit' = train_var_model(data, maxlags, o1, o2)
    /\ UNCHANGED <<data, conv, simcall, sim, after, calls, fccall, fc>>

\* simulate_scenario(table, results, adjustments, steps, last_level) with the
\* pair train_var_model returned; the caller keeps that pair, and keeps the
\* table when it is the one it fitted on, as the call leaves them
SimulateCall(tables, horizons) ==
    /\ fit.status = "ok"
    /\ \E table \in tables :
         \E adjustments \in AdjustmentSets(table) :
           \E steps \in horizons :
             LET left == ArgsAfter(table, fit.model, adjustments, fit.last_level)
             IN /\ simcall' = [data |-> table, adjustments |-> adjustments,
                               steps |-> steps]
                /\ sim' = simulate_scenario(table, fit.model, adjustments, steps,
                                            fit.last_level)
                /\ after' = left
                /\ fit' = [fit EXCEPT !.model = left.var_results,
                                      !.last_level = left.last_level]
                /\ data' = IF table = data THEN left.data ELSE data
    /\ calls' = calls + 1
    /\ UNCHANGED <<conv, fitcall, fccall, fc>>

\* one call, with any table the caller may hold
Simulate ==
    /\ sim.status = "none"
    /\ SimulateCall(SimTables(data), 0..MaxSteps)

\* successive calls against the same fitted model, on the table it was
\* fitted on
SimulateAgain ==
    /\ calls < MaxCalls
    /\ SimulateCall({data}, {0, MaxSteps})

Next == Convert \/ Train \/ Simulate

Spec == Init /\ [][Next]_vars

\* forecast_arima(data, steps=steps) on the series held in data
ForecastArima ==
    /\ fc.status = "none"
    /\ \E steps \in 0..MaxSteps :
         \E o \in SeriesFitOutcomes :
           /\ fccall' = [forecaster |-> "arima", steps |-> steps, o |-> o]
           /\ fc' = forecast_arima(data, steps, o)
    /\ UNCHANGED <<data, conv, fitcall, fit, simcall, sim, after, calls>>

\* forecast_prophet(data, steps=steps) on the series held in data
ForecastProphet ==
    /\ fc.status = "none"
    /\ \E steps \in 0..MaxSteps :
         \E o \in SeriesFitOutcomes :
           /\ fccall' = [forecaster |-> "prophet", steps |-> steps, o |-> o]
           /\ fc' = forecast_prophet(data, steps, o)
    /\ UNCHANGED <<data, conv, fitcall, fit, simcall, sim, after, calls>>

\* one call of a single-series forecaster on a series
InitSeries ==
    /\ data \in SeriesTables
    /\ conv = <<>>
    /\ fitcall = NoFitCall
    /\ fit = NoFit
    /\ simcall = NoSimCall
    /\ sim = NoSim
    /\ after = NoArgs
    /\ calls = 0
    /\ fccall = NoForecastCall
    /\ fc = NoForecast

NextSeries == ForecastArima \/ ForecastProphet

SpecSeries == InitSeries /\ [][NextSeries]_vars

\* sequences of calls of simulate_scenario after one fit
InitCalls ==
    /\ Init
    /\ data.columns = <<S_Temp \o Sep \o S_degC, S_Wind>>

NextCalls == Train \/ SimulateAgain

SpecCalls == InitCalls /\ [][NextCalls]_vars

\* ---------------------------------------------------------------- claims
\* the call of simulate_scenario took the differenced branch
DiffBranch == fit.last_level.present
\* the rows the window is cut from: the converted rows in the level branch,
\* the differenced rows in the differenced branch
SimSourceRows ==
    IF DiffBranch
    THEN DropNa(FrameDiff(SetIndex(convert_temperature_to_fahrenheit(simcall.data)))).rows
    ELSE convert_temperature_to_fahrenheit(simcall.data).rows
\* exactly the last k rows of a sequence of at least k rows
LastRows(rows, k) == SubSeq(rows, Len(rows) - k + 1, Len(rows))
\* the call can be served: the model has a lag order of at least 1 and the
\* table holds at least that many rows for the window
FullWindow ==
    /\ sim.status # "none"
    /\ fit.model.k_ar >= 1
    /\ Len(SimSourceRows) >= fit.model.k_ar

\* C1 (as claimed): train_var_model fails with InsufficientDataError, before
\* any fit is attempted, on a table of fewer than 2 observations, and never
\* fails with it on 2 or more.
C1_InsufficientDataChecked ==
    fit.status # "none" =>
      /\ Len(data.rows) < 2 =>
           (fit.status = "InsufficientDataError" /\ fit.attempts = 0)
      /\ Len(data.rows) >= 2 => fit.status # "InsufficientDataError"

\* C2: on every successful return of train_var_model the snapshot is present
\* exactly when the model was estimated on the differenced series (one row
\* fewer than the table); a present snapshot is the last converted,
\* undifferenced row of the table under the converted column names; and a
\* successful level attempt returns no snapshot.
C2_SnapshotIffDifferenced ==
    fit.status = "ok" =>
      LET converted == convert_temperature_to_fahrenheit(data)
          n == Len(data.rows)
      IN /\ fit.last_level.present <=> fit.model.differenced
         /\ fit.model.differenced <=> fit.model.nobs = n - 1
         /\ fit.last_level.present =>
              /\ fit.last_level.values = converted.rows[n]
              /\ fit.last_level.index = converted.columns
         /\ fitcall.o1.kind = "ok" => fit.last_level = NoSnapshot

\* C2 witness: a fallback fit returned a snapshot whose temperature was
\* converted (it differs from the raw last row).
C2_Witness ==
    /\ fit.status = "ok"
    /\ fit.last_level.present
    /\ fit.last_level.values # data.rows[Len(data.rows)]
    /\ fit.last_level.values[1] = ToFahrenheit(data.rows[Len(data.rows)][1])

\* C3 (as claimed): a near-singular failure never leaves train_var_model,
\* wherever it occurs, and any other failure of the library leaves it
\* unmodified after a single attempt.
C3_NearSingularNeverSurfaced ==
    fit.status # "none" =>
      /\ fit.status # "LinAlgError"
      /\ fitcall.o1.kind = "LibraryError" =>
           (fit.status = "LibraryError" /\ fit.attempts = 1)

\* C4 (as claimed): converting the converted table changes neither its values
\* nor its column names.
C4_ConvertIdempotent ==
    Len(conv) >= 2 => conv[2] = conv[1]

\* a sequence without its i-th element
RemoveAt(seq, i) == SubSeq(seq, 1, i - 1) \o SubSeq(seq, i + 1, Len(seq))
\* the positions of the adjustment items whose key is not a variable
UnknownItems ==
    { i \in 1..Len(simcall.adjustments) :
        Loc(convert_temperature_to_fahrenheit(simcall.data).columns, simcall.adjustments[i][1]) = 0 }

\* C5: in either branch, an adjustment whose key is not a variable changes
\* nothing: the call returns (or raises) exactly what it does with that key
\* removed from the adjustment set, and it never raises KeyError.
C5_UnknownKeyIgnored ==
    sim.status # "none" =>
      /\ sim.status # "KeyError"
      /\ \A i \in UnknownItems :
           sim = simulate_scenario(simcall.data, fit.model,
                                  RemoveAt(simcall.adjustments, i),
                                  simcall.steps, fit.last_level)

\* C5 witness: a differenced-branch call that returned a forecast for an
\* adjustment set holding both a variable and a key that is no variable.
C5_Witness ==
    /\ sim.status = "ok"
    /\ DiffBranch
    /\ simcall.steps >= 1
    /\ UnknownItems # {}
    /\ UnknownItems # 1..Len(simcall.adjustments)

\* C6 (as claimed), on the calls that can be served: with an empty adjustment
\* set the window handed to the model is the last lag-order rows of the
\* converted table (level branch) or of its differences (differenced
\* branch), unchanged, whatever table and snapshot were passed.
C6_EmptyAdjustmentUnperturbed ==
    (FullWindow /\ simcall.adjustments = <<>>) =>
      /\ sim.called
      /\ sim.window = LastRows(SimSourceRows, fit.model.k_ar)

\* C7 (as claimed): every call with steps = 0 returns, in either branch and
\* for every fitted model, a frame of zero rows whose columns are the
\* variables of the fitted model; it raises no error.
C7_ZeroStepsEmptyFrame ==
    (sim.status # "none" /\ simcall.steps = 0) =>
      /\ sim.status = "ok"
      /\ sim.rows = <<>>
      /\ sim.index = <<>>
      /\ sim.forecast = <<>>
      /\ sim.columns = fit.model.names

\* C8 (as claimed): the window handed to the forecasting routine holds exactly
\* lag-order rows, for every order the fitter selects and every table, and a
\* table with fewer rows than the order makes simulate fail with
\* InsufficientDataError.
C8_WindowExactlyLagOrder ==
    sim.status # "none" =>
      /\ sim.called => Len(sim.window) = fit.model.k_ar
      /\ Len(SimSourceRows) < fit.model.k_ar =>
           sim.status = "InsufficientDataError"

\* C9 (as claimed): in the differenced branch the cell of the returned frame
\* at step t is the snapshot's value plus the sum of the first t forecast
\* differences of that variable, and no cell is missing.
C9_LevelsReconstructed ==
    (sim.status = "ok" /\ DiffBranch) =>
      \A t \in 1..simcall.steps : \A j \in 1..Len(sim.columns) :
        /\ sim.rows[t][j] # NaN
        /\ sim.rows[t][j] =
             fit.last_level.values[j] + CumSum(sim.forecast)[t][j]

\* C10: a returned frame has exactly steps rows, labelled by the hours that
\* follow the last timestamp of the table passed to simulate, the first one
\* hour after it, and its columns are the fitted model's variables in the
\* model's order, in either branch.
C10_ForecastFrameShape ==
    sim.status = "ok" =>
      LET last == simcall.data.DateTime[Len(simcall.data.DateTime)]
      IN /\ Len(sim.rows) = simcall.steps
         /\ Len(sim.index) = simcall.steps
         /\ \A t \in 1..simcall.steps : sim.index[t] = TsLabel(last + t)
         /\ sim.columns = fit.model.names
         /\ \A t \in 1..simcall.steps : Len(sim.rows[t]) = Len(fit.model.names)

\* C10 witness: a differenced-branch call returned a frame of two or more rows.
C10_Witness ==
    /\ sim.status = "ok"
    /\ DiffBranch
    /\ simcall.steps >= 2
    /\ sim.index[2] = TsLabel(simcall.data.DateTime[Len(simcall.data.DateTime)] + 2)

\* C11: a call of simulate_scenario leaves the table, the fitted model, the
\* adjustment set and the snapshot as they were, so in any sequence of calls
\* against one fitted model each call returns what a first call with its
\* arguments returns: adjustments of earlier calls do not carry over.
C11_SimulateStateless ==
    sim.status # "none" =>
      LET fitted == train_var_model(data, fitcall.maxlags, fitcall.o1, fitcall.o2)
      IN /\ after.data = simcall.data
         /\ after.adjustments = simcall.adjustments
         /\ after.var_results = fitted.model
         /\ after.last_level = fitted.last_level
         /\ fit = fitted
         /\ sim = simulate_scenario(simcall.data, fitted.model, simcall.adjustments,
                                    simcall.steps, fitted.last_level)

\* C11 witness: a second call in the differenced branch, with an adjustment
\* of a variable, returned a forecast.
C11_Witness ==
    /\ calls = 2
    /\ sim.status = "ok"
    /\ DiffBranch
    /\ simcall.steps >= 1
    /\ \E i \in 1..Len(simcall.adjustments) : i \notin UnknownItems

\* C12: given the timestamps and one value column, a forecaster that has
\* fewer than 2 observations (autoregressive-integrated) or fewer than 2
\* non-missing values (additive) fails with the insufficient-data error, the
\* ValueError of lines 13 and 29, with no other error, and before any fit.
C12_SingleSeriesInsufficientData ==
    LET value == [i \in 1..Len(data.rows) |-> data.rows[i][1]]
        usable == IF fccall.forecaster = "arima" THEN Len(value)
                  ELSE CountNotNa(value)
    IN (fc.status # "none" /\ Len(data.columns) = 1 /\ usable < 2) =>
         (fc.status = "ValueError" /\ ~fc.fitted)

\* C13: the maximum lag passed to order selection is M when L > M and
\* max(1, L - 1) when L <= M, for the level attempt with L the table length
\* and for the fallback with L the length of the differenced series, both
\* against the requested M; the selected lag order never exceeds M.
C13_MaxlagsPassed ==
    fit.status # "none" =>
      LET ExpectedMaxlags(L, M) == IF L > M THEN M ELSE Max(1, L - 1)
      IN
      /\ Len(fitcall.passed) = fit.attempts
      /\ fitcall.passed[1] = ExpectedMaxlags(Len(data.rows), fitcall.maxlags)
      /\ fit.attempts = 2 =>
            fitcall.passed[2] =
              ExpectedMaxlags(Len(FitDiffFrame(data).rows), fitcall.maxlags)
      /\ fit.status = "ok" => fit.model.k_ar <= fitcall.maxlags

\* C13 witness: the fallback fitted a model on a table no longer than the
\* requested maximum, with a maximum lag reduced twice.
C13_Witness ==
    /\ fit.status = "ok"
    /\ fit.attempts = 2
    /\ Len(data.rows) <= fitcall.maxlags
    /\ fitcall.passed[2] < fitcall.passed[1]
    /\ fitcall.passed[1] < fitcall.maxlags

\* C14 (as claimed): in both branches the window handed to the model is the
\* unadjusted window with, in its last row only, every variable named in the
\* adjustment set increased by exactly its delta, whatever the last row of
\* the table passed is.
C14_WindowLastRowDelta ==
    (FullWindow /\ sim.called) =>
      LET k == fit.model.k_ar
          unadjusted == LastRows(SimSourceRows, k)
          columns == convert_temperature_to_fahrenheit(simcall.data).columns
          items == { i \in 1..Len(simcall.adjustments) : i \notin UnknownItems }
          DeltaOn(j) ==
              IF \E i \in items : simcall.adjustments[i][1] = columns[j]
              THEN simcall.adjustments[
                     CHOOSE i \in items : simcall.adjustments[i][1] = columns[j]][2]
              ELSE 0
      IN /\ Len(sim.window) = k
         /\ \A r \in 1..k : \A j \in 1..Len(columns) :
              sim.window[r][j] =
                unadjusted[r][j] + (IF r = k THEN DeltaOn(j) ELSE 0)

====
